---------------------------- MODULE Spec2Model ----------------------------
(***************************************************************************)
(* uptools: budgeted, streaming iteration over the entries of ROOT trees.  *)
(*                                                                         *)
(* The generators iter_arrays, iter_arrays_weighted and iter_events of     *)
(* uptools/__init__.py are modelled statement by statement: a generator    *)
(* is a program counter plus its local variables, and one action is one    *)
(* step of its body.  uproot's TTree.iterate is the external column-batch  *)
(* source: a file is the sequence of its chunk sizes, and the source       *)
(* either stops at the entrystop it is given or returns its chunks whole.  *)
(***************************************************************************)
EXTENDS Integers, Sequences, FiniteSets, TLC

(* ------------------------------ bounds --------------------------------- *)

\* Records held, in total, by the files one call is given.
MaxRecords == 4

\* Files in one list of rootfiles.
MaxFiles == 2

\* Records held, in total, by the files two generators run over at once.
MaxShared == 3

\* Entries, at every depth together, of the directory find_tree is given.
MaxEntries == 4

\* Groups (lists of rootfiles, one weight each) in one weighted call.
MaxGroups == 2

\* The largest weight (cross section) of a group.
MaxWeight == 2

(* --------------------------- optional values --------------------------- *)

\* Python's None, and an integer that is set.
NoneVal == [some |-> FALSE, v |-> 0]

Some(x) == [some |-> TRUE, v |-> x]

\* Python truthiness of an optional integer: None and 0 are falsy.
Truthy(o) == o.some /\ o.v # 0

(* ------------------------------ the files ------------------------------ *)

RECURSIVE SumSeq(_)
SumSeq(s) == IF s = <<>> THEN 0 ELSE Head(s) + SumSeq(Tail(s))

\* Every chunking of at most r records: sequences of positive chunk sizes.
RECURSIVE Chunkings(_)
Chunkings(r) ==
    {<<>>} \cup UNION {{<<c>> \o t : t \in Chunkings(r - c)} : c \in 1..r}

\* Every list of at most f files holding at most r records in total.
RECURSIVE FileLists(_, _)
FileLists(r, f) ==
    {<<>>} \cup
    (IF f = 0 THEN {}
     ELSE UNION {{<<c>> \o t : t \in FileLists(r - SumSeq(c), f - 1)} :
                    c \in Chunkings(r)})

\* A file: the chunk sizes of its tree, the path the tree lives at ("" when
\* the file holds no tree), and whether uproot.open can read it.
File(c, tree, readable) == [chunks |-> c, tree |-> tree, readable |-> readable]

\* The path every regular file keeps its tree at, and another one.
TreePath == "events"

OtherPath == "dir/events"

\* What can be wrong with a file: it cannot be opened, it holds no tree, or
\* its tree lives at another path.
Oddities == {"unreadable", "treeless", "elsewhere"}

OddFile(c, kind) ==
    CASE kind = "unreadable" -> File(c, TreePath, FALSE)
      [] kind = "treeless"   -> File(c, "", TRUE)
      [] kind = "elsewhere"  -> File(c, OtherPath, TRUE)

\* A list of chunkings as a list of regular files.
Regular(fl) == [i \in 1..Len(fl) |-> File(fl[i], TreePath, TRUE)]

\* The same with file j odd.
WithOdd(fl, j, kind) ==
    [i \in 1..Len(fl) |-> IF i = j THEN OddFile(fl[i], kind)
                          ELSE File(fl[i], TreePath, TRUE)]

\* Every list of files over the chunkings fl with at most one odd file.
Decorated(fl) ==
    {Regular(fl)} \cup {WithOdd(fl, j, k) : j \in 1..Len(fl), k \in Oddities}

\* Records held by a list of files.
RECURSIVE TotalRecords(_)
TotalRecords(fl) ==
    IF fl = <<>> THEN 0 ELSE SumSeq(Head(fl).chunks) + TotalRecords(Tail(fl))

(* ------------------------------ find_tree ------------------------------ *)

\* The names the entries of a directory go by.
Names == {"a", "b"}

\* A key of tdir.items(): the name as bytes with its cycle number, b"a;1".
Key(name) == [name |-> name, cycle |-> "1"]

\* key.decode().split(";")[0]
KeyName(key) == key.name

\* The entries of a directory: a tree, a directory with its own entries, or
\* an object that is neither.
Tree(name) == [key |-> Key(name), kind |-> "tree", items |-> <<>>]

Other(name) == [key |-> Key(name), kind |-> "other", items |-> <<>>]

Dir(name, items) == [key |-> Key(name), kind |-> "dir", items |-> items]

\* The attributes hasattr finds on an entry: a tree has numbranches and,
\* like a directory, items.
Attributes(e) ==
    CASE e.kind = "tree" -> {"numbranches", "items"}
      [] e.kind = "dir"  -> {"items"}
      [] OTHER           -> {}

\* Entries of a directory, those of its subdirectories included.
RECURSIVE Size(_)
Size(d) == IF d = <<>> THEN 0 ELSE 1 + Size(Head(d).items) + Size(Tail(d))

\* Every directory of at most n entries.
RECURSIVE Directories(_)
Directories(n) ==
    {<<>>} \cup
    (IF n = 0 THEN {}
     ELSE LET leaves == {Tree(nm) : nm \in Names} \cup {Other(nm) : nm \in Names}
              dirs   == {Dir(nm, d) : nm \in Names, d \in Directories(n - 1)}
          IN  UNION {{<<e>> \o t : t \in Directories(n - 1 - Size(e.items))} :
                        e \in leaves \cup dirs})

\* Mutation: an entry that has items is walked into before it is asked for
\* numbranches.
Yields_items_first(e) ==
    "numbranches" \in Attributes(e) /\ "items" \notin Attributes(e)

\* if hasattr(value, "numbranches"): the entry is yielded as a tree.
Yields(e) == "numbranches" \in Attributes(e)

\* elif hasattr(value, "items"): the entry is walked into.
Descends(e) == ~Yields(e) /\ "items" \in Attributes(e)

\* _iter_trees(tdir, prefix): the (path, tree) pairs it yields, in order,
\* from entry i of the directory on; a tree is known by its position `at`.
RECURSIVE iter_trees(_, _, _, _)
iter_trees(d, i, prefix, at) ==
    IF i > Len(d) THEN <<>>
    ELSE LET value == d[i]
             key   == KeyName(value.key)
             here  == Append(at, i)
             first == IF Yields(value)
                      THEN <<[path |-> prefix \o key, tree |-> here]>>
                      ELSE IF Descends(value)
                      THEN iter_trees(value.items, 1, prefix \o key \o "/", here)
                      ELSE <<>>
         IN  first \o iter_trees(d, i + 1, prefix, at)

\* find_tree has not been called.
NotCalled == [status |-> "idle", path |-> "", tree |-> <<>>]

\* find_tree(tdir): the first pair _iter_trees yields, or the exception of
\* the else branch of the for loop when it yields none.
find_tree(d) ==
    LET trees == iter_trees(d, 1, "", <<>>)
    IN  IF trees # <<>>
        THEN [status |-> "returned", path |-> trees[1].path,
              tree |-> trees[1].tree]
        ELSE [status |-> "raised", path |-> "", tree |-> <<>>]

(* --------------------------- the batch source -------------------------- *)

VARIABLE
    native          \* the source: the type of the keys of its batches

\* The types a column name comes in.
KeyTypes == {"bytes", "str"}

\* Entries of the file that precede chunk i.
Offset(chunks, i) == SumSeq(SubSeq(chunks, 1, i - 1))

Min(a, b) == IF a <= b THEN a ELSE b

\* The batch a chunk is returned as: the entries [start, start + n) of file f
\* of group g, its columns under keys of the source's type.
Batch(g, f, start, n) ==
    [g |-> g, f |-> f, start |-> start, n |-> n, keys |-> native]

\* The chunks of a file, whole.
WholeChunks(g, f, chunks) ==
    [i \in 1..Len(chunks) |-> Batch(g, f, Offset(chunks, i), chunks[i])]

\* The chunks of a file cut at entry `stop`: what overlaps [0, stop).
ClippedChunks(g, f, chunks, stop) ==
    LET whole == WholeChunks(g, f, chunks)
        kept  == SelectSeq(whole, LAMBDA b : b.start < stop)
    IN  [i \in 1..Len(kept) |->
           Batch(g, f, kept[i].start,
                 Min(kept[i].start + kept[i].n, stop) - kept[i].start)]

\* t.iterate(entrystop=hint): hint None reads to the end of the file; with a
\* hint the source honours it (clips = TRUE) or returns its chunks whole.
Iterate(g, f, chunks, hint, clips) ==
    IF hint.some /\ clips THEN ClippedChunks(g, f, chunks, hint.v)
    ELSE WholeChunks(g, f, chunks)

(* ------------------------------ columns -------------------------------- *)

\* The branches every batch carries.
Columns == {"pt", "eta"}

\* arrays[k]: the values of column k of a batch, one per entry.
Column(b, k) == [i \in 0..(b.n - 1) |-> <<b.g, b.f, b.start + i, k>>]

\* arrays: the mapping from column name to column.
Arrays(b) == [k \in Columns |-> Column(b, k)]

\* Whether arrays[key] succeeds for the name as a key of the given type: the
\* mapping holds every name under a key of one type, the lookup under the
\* other type fails (KeyError).
HasKey(b, name, type) == name \in Columns /\ type = b.keys

\* numentries(arrays): the length of the first column.
numentries(b) ==
    LET arrays == Arrays(b)
        k == CHOOSE c \in DOMAIN arrays : TRUE
    IN  Cardinality(DOMAIN arrays[k])

\* Mutation: every event is read at position 0.
get_event_first(b, i) == [k \in Columns |-> Arrays(b)[k][0]]

\* get_event(arrays, i)
get_event(b, i) == [k \in Columns |-> Arrays(b)[k][i]]

(* ------------------------- source normalisation ------------------------ *)

\* A rootfiles argument: a list of files, the path of one file, or a
\* pattern ("*" in a string that ends with ".root") together with the files
\* that match it; a remote pattern is one that has a protocol.
ListArg(fl) == [kind |-> "list", files |-> fl]

PathArg(file) == [kind |-> "path", files |-> <<file>>]

GlobArg(fl, remote) ==
    [kind |-> IF remote THEN "remote glob" ELSE "local glob", files |-> fl]

\* What a path that names no file stands for: nothing uproot.open can read.
NoSuchFile == File(<<>>, "", FALSE)

\* format_rootfiles: a string that ends with ".root" becomes the listing of
\* seutils.ls_wildcard when it has a protocol and a "*", and otherwise the
\* one-element list of the string itself, a pattern included: taken as a
\* path, a pattern names no file.  A list passes through.
format_rootfiles(arg) ==
    CASE arg.kind = "path"        -> <<arg.files[1]>>
      [] arg.kind = "remote glob" -> arg.files
      [] arg.kind = "local glob"  -> <<NoSuchFile>>
      [] OTHER                    -> arg.files

(* ------------------------- the sub-budgets ----------------------------- *)

\* Mutation: the fraction is cut off instead of rounded.
round_down(num, den) == num \div den

\* Python's round() of the non-negative fraction num / den: the nearest
\* integer, a tie going to the even neighbour.
round(num, den) ==
    LET q == num \div den
        r == num % den
    IN  IF 2 * r < den THEN q
        ELSE IF 2 * r > den THEN q + 1
        ELSE IF q % 2 = 0 THEN q ELSE q + 1

\* norm = sum(crosssections)
Norm(xs) == SumSeq(xs)

\* ns = [round(xs / norm * N) for xs in crosssections]
SubBudgets(n, xs) == [i \in 1..Len(xs) |-> round(xs[i] * n, Norm(xs))]

(* ------------------------------- state --------------------------------- *)

VARIABLES
    mode,           \* the generator the consumer holds: arrays, weighted, events
    rootfiles,      \* iter_arrays: the rootfiles argument
    nmax,           \* iter_arrays: the budget argument (optional integer)
    treepath,       \* iter_arrays: the treepath argument and local
    ntodo,          \* iter_arrays: the running remainder
    files,          \* iter_arrays: the list the for loop walks
    fidx,           \* iter_arrays: position of the for loop in files
    it,             \* iter_arrays: batches the open t.iterate has yet to return
    pc,             \* iter_arrays: where the generator stands
    err,            \* the exception that ended the call, "" when none
    grp,            \* group the running iter_arrays call belongs to
    out,            \* batches the consumer has received, in order
    src,            \* batches the source has returned, in order
    opened,         \* files opened, in order, with the hint each was given
    located,        \* files find_tree was run on, in order
    asked,          \* number of times the source was asked for a batch
    runs,           \* iter_arrays calls the weighted sampler has made, in order
    N,              \* iter_arrays_weighted: total number of events asked for
    crosssections,  \* iter_arrays_weighted: the weights
    groups,         \* iter_arrays_weighted: the lists of rootfiles
    ns,             \* iter_arrays_weighted: the sub-budgets
    gidx,           \* iter_arrays_weighted: position of the for loop
    wpc,            \* iter_arrays_weighted: where the generator stands
    events,         \* iter_events: the events yielded, in order
    eb,             \* iter_events: position in out of the batch being walked
    ei,             \* iter_events: the loop variable i
    kwargs,         \* iter_arrays: the keyword arguments as the caller gave them
    parked,         \* the frame of a second, suspended iter_arrays generator
    active,         \* which of the two generators the iter_arrays state is of
    tdir,           \* find_tree: the directory it is given
    found           \* find_tree: what it returned or raised

iaVars == <<rootfiles, nmax, treepath, ntodo, files, fidx, it, pc, grp>>

logVars == <<out, src, opened, located, asked, runs>>

wVars == <<N, crosssections, groups, ns, gidx, wpc>>

eVars == <<events, eb, ei>>

\* What no step of the three generators changes.
xVars == <<kwargs, native, parked, active, tdir, found>>

vars == <<mode, iaVars, err, logVars, wVars, eVars, xVars>>

\* A treepath: None, or a path as text (str) or as bytes.
NoTreePath == [type |-> "NoneType", path |-> ""]

Str(path) == [type |-> "str", path |-> path]

\* path.encode(): the same path as bytes.
encode(path) == [type |-> "bytes", path |-> path]

\* The keyword arguments of a call that gives no decode.
Kwargs(tp) == [treepath |-> tp, decode |-> FALSE]

\* The second generator does not exist, find_tree is not called on its own.
Single ==
    /\ parked = <<>>
    /\ active = 1
    /\ tdir = <<>>
    /\ found = NotCalled

\* Budgets a call is given: unset, or 0 .. MaxRecords + 1.
Budgets == {NoneVal} \cup {Some(k) : k \in 0..(MaxRecords + 1)}

\* The rootfiles a call is given: a list of files or the path of one file.
Arguments ==
    UNION {{ListArg(d) : d \in Decorated(fl)} :
              fl \in FileLists(MaxRecords, MaxFiles)}
    \cup UNION {{PathArg(d[1]) : d \in Decorated(<<c>>)} :
                   c \in Chunkings(MaxRecords)}

\* No iter_arrays_weighted call is under way.
WeightedIdle ==
    /\ N = 0
    /\ crosssections = <<>>
    /\ groups = <<>>
    /\ ns = <<>>
    /\ gidx = 0
    /\ wpc = "idle"

\* No iter_events call is under way.
EventsIdle ==
    /\ events = <<>>
    /\ eb = 1
    /\ ei = 0

\* Nothing has been read.
LogsEmpty ==
    /\ out = <<>>
    /\ src = <<>>
    /\ opened = <<>>
    /\ located = <<>>
    /\ asked = 0
    /\ runs = <<>>

\* iter_arrays(rootfiles, nmax, treepath): the generator is created, nothing
\* has run.
CallArrays ==
    /\ rootfiles \in Arguments
    /\ nmax \in Budgets
    /\ treepath = kwargs.treepath
    /\ ntodo = NoneVal
    /\ files = <<>>
    /\ fidx = 0
    /\ it = <<>>
    /\ pc = "start"
    /\ err = ""
    /\ grp = 1

InitArrays ==
    /\ mode = "arrays"
    /\ kwargs \in {Kwargs(NoTreePath), Kwargs(Str(TreePath))}
    /\ native = "bytes"
    /\ Single
    /\ CallArrays
    /\ LogsEmpty
    /\ WeightedIdle
    /\ EventsIdle

(* ----------------------------- iter_arrays ----------------------------- *)

\* The consumer is asking the iter_arrays generator for a batch.
Driving ==
    CASE mode = "arrays"   -> TRUE
      [] mode = "pair"     -> TRUE
      [] mode = "weighted" -> wpc = "sub"
      [] mode = "events"   -> eb > Len(out)

\* ntodo = nmax; for rootfile in format_rootfiles(rootfiles):
IA_Begin ==
    /\ Driving
    /\ pc = "start"
    /\ ntodo' = nmax
    /\ files' = format_rootfiles(rootfiles)
    /\ fidx' = 1
    /\ pc' = "loop"
    /\ UNCHANGED <<mode, rootfiles, nmax, treepath, it, grp, err, logVars, wVars, eVars, xVars>>

\* Mutation: every file is opened with the whole budget as its hint.
EntryStop_total == nmax

\* The hint a file is opened with: entrystop=nmax in the uncapped branch,
\* entrystop=ntodo in the capped one.
EntryStop == IF ~Truthy(nmax) THEN nmax ELSE ntodo

\* Mutation: the tree is looked for in every file.
Locating_always == TRUE

\* if treepath is None
Locating == treepath = NoTreePath

\* The exception the loop body raises before it reaches t.iterate, "" when
\* it raises none: uproot.open fails, find_tree finds no tree, or f[treepath]
\* finds no such tree.
OpenError(file) ==
    IF ~file.readable THEN "OSError"
    ELSE IF Locating
         THEN (IF file.tree = "" THEN "NoTreeFound" ELSE "")
         ELSE (IF file.tree # treepath.path THEN "KeyError" ELSE "")

\* t.iterate(entrystop=..., **kwargs): iter_arrays has no decode parameter,
\* a decode keyword reaches the source among kwargs.  The source takes the
\* keyword it does not know (accepts) or raises TypeError.
IterateError(accepts) == IF kwargs.decode /\ ~accepts THEN "TypeError" ELSE ""

\* The loop body up to the call of t.iterate: open the next file, find the
\* tree (find_tree when treepath is None, f[treepath] otherwise), call
\* t.iterate with the hint.
IA_Open ==
    /\ Driving
    /\ pc = "loop"
    /\ fidx <= Len(files)
    /\ LET file == files[fidx] IN
       IF OpenError(file) # ""
       THEN /\ pc' = "raised"
            /\ err' = OpenError(file)
            /\ located' = IF file.readable /\ Locating
                          THEN Append(located, [g |-> grp, f |-> fidx])
                          ELSE located
            /\ UNCHANGED <<treepath, it, opened>>
       ELSE /\ treepath' = IF Locating THEN encode(file.tree) ELSE treepath
            /\ located' = IF Locating
                          THEN Append(located, [g |-> grp, f |-> fidx])
                          ELSE located
            /\ opened' = Append(opened,
                                [g |-> grp, f |-> fidx, hint |-> EntryStop])
            /\ \E clips, accepts \in BOOLEAN :
                  IF IterateError(accepts) # ""
                  THEN /\ it' = <<>>
                       /\ pc' = "raised"
                       /\ err' = IterateError(accepts)
                  ELSE /\ it' = Iterate(grp, fidx, file.chunks, EntryStop,
                                        clips)
                       /\ pc' = "iter"
                       /\ err' = err
    /\ UNCHANGED <<mode, rootfiles, nmax, ntodo, files, fidx, grp, out, src, asked, runs, wVars, eVars, xVars>>

\* Mutation: a capped run that finds no further file and has budget left
\* starts over at its first file.
IA_Exhausted_rewind ==
    /\ Driving
    /\ pc = "loop"
    /\ fidx > Len(files)
    /\ IF Truthy(nmax) /\ ntodo.v > 0 /\ files # <<>>
       THEN /\ fidx' = 1
            /\ pc' = "loop"
       ELSE /\ fidx' = fidx
            /\ pc' = "done"
    /\ UNCHANGED <<mode, rootfiles, nmax, treepath, ntodo, files, it, grp, err, logVars, wVars, eVars, xVars>>

\* The for loop finds no further file: the generator returns.
IA_Exhausted ==
    /\ Driving
    /\ pc = "loop"
    /\ fidx > Len(files)
    /\ pc' = "done"
    /\ UNCHANGED <<mode, rootfiles, nmax, treepath, ntodo, files, fidx, it, grp, err, logVars, wVars, eVars, xVars>>

\* Mutation: the batch is cut down to the records the budget still allows.
Forwarded_cut(arrays) ==
    IF Truthy(nmax) THEN [arrays EXCEPT !.n = Min(arrays.n, ntodo.v)]
    ELSE arrays

\* What the generator hands to its consumer for a batch of the source: the
\* batch itself (yield arrays).
Forwarded(arrays) == arrays

\* Mutation: an uncapped run returns when its first file is exhausted.
IA_Next_firstfile ==
    /\ Driving
    /\ pc = "iter"
    /\ asked' = asked + 1
    /\ IF it = <<>>
       THEN /\ fidx' = fidx + 1
            /\ pc' = IF ~Truthy(nmax) THEN "done" ELSE "loop"
            /\ UNCHANGED <<ntodo, it, out, src>>
       ELSE /\ it' = Tail(it)
            /\ src' = Append(src, Head(it))
            /\ out' = Append(out, Forwarded(Head(it)))
            /\ fidx' = fidx
            /\ IF ~Truthy(nmax)
               THEN /\ pc' = "iter"
                    /\ ntodo' = ntodo
               ELSE /\ ntodo' = Some(ntodo.v - numentries(Head(it)))
                    /\ pc' = "yielded"
    /\ UNCHANGED <<mode, rootfiles, nmax, treepath, files, grp, err, opened, located, runs, wVars, eVars, xVars>>

\* One request to t.iterate.  No batch left: on to the next file.  Uncapped:
\* the batch is yielded as it is.  Capped: ntodo -= numentries(arrays), then
\* the batch is yielded.
IA_Next ==
    /\ Driving
    /\ pc = "iter"
    /\ asked' = asked + 1
    /\ IF it = <<>>
       THEN /\ fidx' = fidx + 1
            /\ pc' = "loop"
            /\ UNCHANGED <<ntodo, it, out, src>>
       ELSE /\ it' = Tail(it)
            /\ src' = Append(src, Head(it))
            /\ out' = Append(out, Forwarded(Head(it)))
            /\ fidx' = fidx
            /\ IF ~Truthy(nmax)
               THEN /\ pc' = "iter"
                    /\ ntodo' = ntodo
               ELSE /\ ntodo' = Some(ntodo.v - numentries(Head(it)))
                    /\ pc' = "yielded"
    /\ UNCHANGED <<mode, rootfiles, nmax, treepath, files, grp, err, opened, located, runs, wVars, eVars, xVars>>

\* Mutation: the run goes on when the remainder is exactly zero.
Spent_negative == ntodo.v < 0

\* if ntodo <= 0
Spent == ntodo.v <= 0

\* The consumer pulls again after a capped yield: if ntodo <= 0: return.
IA_Resume ==
    /\ Driving
    /\ pc = "yielded"
    /\ pc' = IF Spent THEN "done" ELSE "iter"
    /\ UNCHANGED <<mode, rootfiles, nmax, treepath, ntodo, files, fidx, it, grp, err, logVars, wVars, eVars, xVars>>

IterArrays == IA_Begin \/ IA_Open \/ IA_Exhausted \/ IA_Next \/ IA_Resume

NextArrays == IterArrays

SpecArrays == InitArrays /\ [][NextArrays]_vars

(* ----------------------- properties of iter_arrays --------------------- *)

\* Records of a sequence of batches.
Count(bs) == SumSeq([i \in 1..Len(bs) |-> bs[i].n])

\* M: the records the files of the call hold.
Held == TotalRecords(format_rootfiles(rootfiles))

\* A sequence without its last element.
AllButLast(s) == SubSeq(s, 1, Len(s) - 1)

IsPrefix(s, t) == Len(s) <= Len(t) /\ s = SubSeq(t, 1, Len(s))

\* Every batch of every file, files in input order, batches in source order.
RECURSIVE Concat(_)
Concat(ss) == IF ss = <<>> THEN <<>> ELSE Head(ss) \o Concat(Tail(ss))

EveryBatch(g, fl) ==
    Concat([f \in 1..Len(fl) |-> WholeChunks(g, f, fl[f].chunks)])

\* C1: overshoot bound.  In a run with a budget k >= 1 every batch is
\* forwarded as the source returned it, the batches forwarded before the last
\* one always hold fewer than k records (so the total stays below k plus the
\* last batch), and a run that ends over files holding more than k records
\* has forwarded at least k.
C1_OvershootBound ==
    Truthy(nmax) =>
        /\ out = src
        /\ out # <<>> => Count(AllButLast(out)) < nmax.v
        /\ (pc = "done" /\ nmax.v < Held) => Count(out) >= nmax.v

\* A budgeted run over two files that ended beyond its budget.
C1_Witness ==
    /\ pc = "done"
    /\ Truthy(nmax)
    /\ nmax.v < Held
    /\ Count(out) > nmax.v
    /\ Len(opened) = 2

\* C2: hard cap of the docstring.  The records of the batches yielded never
\* exceed nmax, for every nmax >= 1.
C2_HardCap == Truthy(nmax) => Count(out) <= nmax.v

\* C3: no budget.  With nmax unset the batches forwarded are always a prefix
\* of every batch of every file, in file order then source order; when the
\* run ends they are all of them, and their records sum to M.
C3_Uncapped ==
    (~nmax.some /\ pc # "start") =>
        /\ IsPrefix(out, EveryBatch(grp, files))
        /\ pc = "done" => /\ out = EveryBatch(grp, files)
                          /\ Count(out) = Held

\* An uncapped run that ended after forwarding several batches of each of two
\* files.
C3_Witness ==
    /\ ~nmax.some
    /\ pc = "done"
    /\ Len(files) = 2
    /\ \A f \in 1..2 : Len(files[f].chunks) >= 2
    /\ Count(out) = MaxRecords

\* C4: stop on exhaustion.  Once the remainder of a budgeted run is zero or
\* below, the only step left ends the sequence: no batch is requested, no
\* file is opened, nothing more is forwarded.
C4_StopOnExhaustion ==
    [][(Truthy(nmax) /\ ntodo.some /\ ntodo.v <= 0)
          => (/\ pc' = "done"
              /\ asked' = asked
              /\ opened' = opened
              /\ out' = out)]_vars

\* A budgeted run that ended with batches left in the open file and a file
\* left in the list.
C4_Witness ==
    /\ pc = "done"
    /\ Truthy(nmax)
    /\ ntodo.v <= 0
    /\ it # <<>>
    /\ fidx < Len(files)

(* ------------------------- iter_arrays_weighted ------------------------ *)

\* Every weight vector of at most MaxGroups weights.
WeightVectors == UNION {[1..k -> 0..MaxWeight] : k \in 0..MaxGroups}

\* The groups a weighted call is given: at most MaxGroups groups holding at
\* most MaxRecords records in total, each group the path of one file.
GroupArguments ==
    {[g \in 1..Len(fl) |-> PathArg(Regular(fl)[g])] :
        fl \in FileLists(MaxRecords, MaxGroups)}

\* iter_arrays_weighted(N, crosssections, rootfiles): the generator is
\* created, nothing has run.
InitWeighted ==
    /\ mode = "weighted"
    /\ N \in 0..MaxRecords
    /\ crosssections \in WeightVectors
    /\ groups \in GroupArguments
    /\ ns = <<>>
    /\ gidx = 0
    /\ wpc = "start"
    /\ rootfiles = ListArg(<<>>)
    /\ nmax = NoneVal
    /\ kwargs = Kwargs(NoTreePath)
    /\ native = "bytes"
    /\ Single
    /\ treepath = NoTreePath
    /\ ntodo = NoneVal
    /\ files = <<>>
    /\ fidx = 0
    /\ it = <<>>
    /\ pc = "idle"
    /\ err = ""
    /\ grp = 0
    /\ LogsEmpty
    /\ EventsIdle

\* Mutation: only too few weights are refused.
Mismatched_fewer == Len(crosssections) < Len(groups)

\* if len(crosssections) != len(rootfiles)
Mismatched == Len(crosssections) # Len(groups)

\* The length check, then norm, ns_float and ns.  Dividing by a zero norm
\* raises ZeroDivisionError.
W_Begin ==
    /\ mode = "weighted"
    /\ wpc = "start"
    /\ IF Mismatched
       THEN /\ wpc' = "raised"
            /\ err' = "LengthMismatch"
            /\ UNCHANGED <<ns, gidx>>
       ELSE IF Norm(crosssections) = 0 /\ crosssections # <<>>
       THEN /\ wpc' = "raised"
            /\ err' = "ZeroDivisionError"
            /\ UNCHANGED <<ns, gidx>>
       ELSE /\ ns' = SubBudgets(N, crosssections)
            /\ gidx' = 1
            /\ wpc' = "loop"
            /\ err' = err
    /\ UNCHANGED <<mode, iaVars, logVars, N, crosssections, groups, eVars, xVars>>

\* Mutation: a zero sub-budget is not skipped.
Skipped_never(n) == n < 0

\* if n == 0
Skipped(n) == n = 0

\* zip(ns, rootfiles) ends with the shorter of the two.
ZipLen == Min(Len(ns), Len(groups))

\* Mutation: every group is run with the whole of N.
GroupBudget_total == N

\* Mutation: the group is run with one event less than its sub-budget.
GroupBudget_less == ns[gidx] - 1

\* nmax=n
GroupBudget == ns[gidx]

\* for n, this_rootfiles in zip(ns, rootfiles): a zero sub-budget is skipped,
\* any other starts iter_arrays(this_rootfiles, nmax=n).
W_Group ==
    /\ mode = "weighted"
    /\ wpc = "loop"
    /\ gidx <= ZipLen
    /\ IF Skipped(ns[gidx])
       THEN /\ gidx' = gidx + 1
            /\ UNCHANGED <<iaVars, wpc, runs>>
       ELSE /\ rootfiles' = groups[gidx]
            /\ nmax' = Some(GroupBudget)
            /\ runs' = Append(runs, [g |-> gidx, nmax |-> Some(GroupBudget)])
            /\ treepath' = NoTreePath
            /\ ntodo' = NoneVal
            /\ files' = <<>>
            /\ fidx' = 0
            /\ it' = <<>>
            /\ pc' = "start"
            /\ grp' = gidx
            /\ wpc' = "sub"
            /\ gidx' = gidx
    /\ UNCHANGED <<mode, err, out, src, opened, located, asked, N, crosssections, groups, ns, eVars, xVars>>

\* Mutation: an exception of the sub-generator is swallowed and the loop
\* goes on to the next group.
W_SubEnds_swallow ==
    /\ mode = "weighted"
    /\ wpc = "sub"
    /\ pc \in {"done", "raised"}
    /\ gidx' = gidx + 1
    /\ wpc' = "loop"
    /\ pc' = "idle"
    /\ UNCHANGED <<mode, rootfiles, nmax, treepath, ntodo, files, fidx, it, grp, err, logVars, N, crosssections, groups, ns, eVars, xVars>>

\* yield from iter_arrays(...) ends: the sub-generator returned, or raised
\* and the exception passes through.
W_SubEnds ==
    /\ mode = "weighted"
    /\ wpc = "sub"
    /\ pc \in {"done", "raised"}
    /\ IF pc = "done"
       THEN /\ gidx' = gidx + 1
            /\ wpc' = "loop"
       ELSE /\ gidx' = gidx
            /\ wpc' = "raised"
    /\ pc' = "idle"
    /\ UNCHANGED <<mode, rootfiles, nmax, treepath, ntodo, files, fidx, it, grp, err, logVars, N, crosssections, groups, ns, eVars, xVars>>

\* The for loop finds no further group: the generator returns.
W_Exhausted ==
    /\ mode = "weighted"
    /\ wpc = "loop"
    /\ gidx > ZipLen
    /\ wpc' = "done"
    /\ UNCHANGED <<mode, iaVars, err, logVars, N, crosssections, groups, ns, gidx, eVars, xVars>>

IterWeighted == W_Begin \/ W_Group \/ W_SubEnds \/ W_Exhausted

NextWeighted == IterWeighted \/ IterArrays

SpecWeighted == InitWeighted /\ [][NextWeighted]_vars

(* ------------------- properties of iter_arrays_weighted ---------------- *)

\* The sub-budgets have been computed.
Budgeted == wpc \in {"loop", "sub", "done"}

\* The elements of a sequence with group g.
OfGroup(s, g) == SelectSeq(s, LAMBDA x : x.g = g)

\* Records forwarded from group g.
Produced(g) == Count(OfGroup(out, g))

\* Records group g holds.
GroupHeld(g) == TotalRecords(format_rootfiles(groups[g]))

Abs(x) == IF x < 0 THEN -x ELSE x

\* The group numbers of a sequence never decrease.
GroupOrdered(s) == \A i, j \in 1..Len(s) : i < j => s[i].g <= s[j].g

\* C5: zero sub-budget.  A group whose sub-budget is zero, whatever its
\* weight, is never run: no iter_arrays call, no file opened, no tree
\* searched, no batch; no error is raised for it, and when the sampler ends
\* every other group has been run.
C5_ZeroSkipped ==
    Budgeted =>
        /\ \A g \in 1..Len(ns) :
              ns[g] = 0 => /\ OfGroup(runs, g) = <<>>
                           /\ OfGroup(opened, g) = <<>>
                           /\ OfGroup(located, g) = <<>>
                           /\ OfGroup(out, g) = <<>>
        /\ wpc = "done" =>
              /\ err = ""
              /\ \A g \in 1..Len(ns) : ns[g] # 0 => Len(OfGroup(runs, g)) = 1

\* A sampler that ended having skipped a group of positive weight that holds
\* records, and having forwarded batches of another group.
C5_Witness ==
    /\ wpc = "done"
    /\ out # <<>>
    /\ \E g \in 1..Len(ns) :
          /\ ns[g] = 0
          /\ crosssections[g] > 0
          /\ GroupHeld(g) > 0

\* C6: length mismatch.  A call whose weights and groups differ in length
\* ends in its first step with the length-mismatch error: no sub-budget is
\* computed, no iter_arrays call made, no file opened, no batch produced.
C6_LengthMismatch ==
    (Len(crosssections) # Len(groups) /\ wpc # "start") =>
        /\ wpc = "raised"
        /\ err = "LengthMismatch"
        /\ ns = <<>>
        /\ runs = <<>>
        /\ opened = <<>>
        /\ asked = 0
        /\ out = <<>>

\* A call with more weights than groups, all of positive weight and holding
\* records, that has raised.
C6_Witness ==
    /\ wpc = "raised"
    /\ Len(crosssections) > Len(groups)
    /\ groups # <<>>
    /\ \A g \in 1..Len(groups) : GroupHeld(g) > 0 /\ crosssections[g] > 0
    /\ N > 0

\* C7: sub-budgets.  For weights of positive sum S every sub-budget n_i is a
\* nearest integer to N * w_i / S (|n_i - N * w_i / S| <= 1/2, stated times
\* 2 * S), every iter_arrays call is given exactly the sub-budget of its
\* group, and the sub-budgets' sum differs from N by no more than the sum of
\* the rounding errors.
C7_SubBudgets ==
    LET S == SumSeq(crosssections)
        Error2S(g) == Abs(2 * S * ns[g] - 2 * N * crosssections[g])
    IN  Budgeted =>
           /\ Len(ns) = Len(crosssections)
           /\ \A g \in 1..Len(ns) : Error2S(g) <= S
           /\ \A r \in 1..Len(runs) : runs[r].nmax = Some(ns[runs[r].g])
           /\ Abs(2 * S * SumSeq(ns) - 2 * S * N)
                 <= SumSeq([g \in 1..Len(ns) |-> Error2S(g)])

\* Sub-budgets whose sum differs from N, one of them rounded up.
C7_Witness ==
    /\ wpc = "done"
    /\ SumSeq(ns) # N
    /\ \E g \in 1..Len(ns) : ns[g] * SumSeq(crosssections) > N * crosssections[g]

\* C8: records per group.  When every group holds at least its sub-budget,
\* a sampler that ended has forwarded from each group a number of records
\* within 1 of N * w_i / S (stated times S).
C8_RecordsPerGroup ==
    LET S == SumSeq(crosssections) IN
    (wpc = "done" /\ \A g \in 1..Len(ns) : GroupHeld(g) >= ns[g]) =>
        \A g \in 1..Len(ns) : Abs(S * Produced(g) - N * crosssections[g]) <= S

\* C9: group order.  The iter_arrays calls are made in weight-vector order,
\* one per group of non-zero sub-budget, each with the sub-budget of its
\* group; files are opened and batches forwarded in group order, none for a
\* group whose turn has not come or before the call of an earlier group has
\* ended; batches are forwarded as the source returned them.
C9_GroupOrder ==
    Budgeted =>
        /\ \A i, j \in 1..Len(runs) : i < j => runs[i].g < runs[j].g
        /\ \A r \in 1..Len(runs) :
              /\ ns[runs[r].g] # 0
              /\ runs[r].nmax = Some(ns[runs[r].g])
        /\ GroupOrdered(opened)
        /\ GroupOrdered(out)
        /\ \A o \in 1..Len(opened) :
              /\ opened[o].g <= gidx
              /\ OfGroup(runs, opened[o].g) # <<>>
              /\ wpc = "loop" => opened[o].g < gidx
        /\ (wpc = "sub" /\ pc # "idle") =>
              \A g \in (gidx + 1)..Len(groups) :
                 OfGroup(opened, g) = <<>> /\ OfGroup(out, g) = <<>>
        /\ out = src
        /\ wpc = "done" =>
              \A g \in 1..Len(ns) : ns[g] # 0 <=> OfGroup(runs, g) # <<>>

\* A sampler that ended after forwarding batches of two groups.
C9_Witness ==
    /\ wpc = "done"
    /\ Len(runs) = 2
    /\ \A g \in 1..2 : OfGroup(out, g) # <<>>
    /\ SumSeq(ns) # N

(* ------------------------------ iter_events ---------------------------- *)

\* iter_events(rootfiles, **kwargs): the generator is created, nothing has
\* run; nmax and treepath reach iter_arrays through kwargs.
InitEvents ==
    /\ mode = "events"
    /\ kwargs \in {Kwargs(NoTreePath), Kwargs(Str(TreePath))}
    /\ native = "bytes"
    /\ Single
    /\ CallArrays
    /\ LogsEmpty
    /\ WeightedIdle
    /\ EventsIdle

\* for i in range(numentries(arrays)): yield get_event(arrays, i)
E_Emit ==
    /\ mode = "events"
    /\ eb <= Len(out)
    /\ LET arrays == out[eb] IN
       IF ei < numentries(arrays)
       THEN /\ events' = Append(events, [b |-> eb, i |-> ei,
                                         event |-> get_event(arrays, ei)])
            /\ ei' = ei + 1
            /\ eb' = eb
       ELSE /\ eb' = eb + 1
            /\ ei' = 0
            /\ events' = events
    /\ UNCHANGED <<mode, iaVars, err, logVars, wVars, xVars>>

NextEvents == E_Emit \/ IterArrays

SpecEvents == InitEvents /\ [][NextEvents]_vars

(* ----------------------- properties of iter_events --------------------- *)

\* The events of a batch, position by position.
EventsOf(bs, b) ==
    [i \in 1..bs[b].n |->
        [b |-> b, i |-> i - 1,
         event |-> [k \in Columns |->
                      <<bs[b].g, bs[b].f, bs[b].start + i - 1, k>>]]]

\* The events of a sequence of batches, batch by batch.
Flattened(bs) == Concat([b \in 1..Len(bs) |-> EventsOf(bs, b)])

\* C10: record order.  The events yielded are always a prefix of the events
\* of the batches iter_arrays has forwarded, batch by batch and position by
\* position, each event mapping every column to its value at that position;
\* while a batch is walked exactly its first i events are out, and when both
\* generators have ended the events are as many as the records forwarded.
C10_RecordOrder ==
    /\ IsPrefix(events, Flattened(out))
    /\ eb <= Len(out) => events = Flattened(SubSeq(out, 1, eb - 1))
                                     \o SubSeq(EventsOf(out, eb), 1, ei)
    /\ eb > Len(out) => events = Flattened(out)
    /\ (pc = "done" /\ eb > Len(out)) => Len(events) = Count(out)

\* A run that ended after the events of two batches of several records each.
C10_Witness ==
    /\ pc = "done"
    /\ eb > Len(out)
    /\ Len(out) = 2
    /\ \A b \in 1..2 : out[b].n >= 2
    /\ Len(events) = MaxRecords





(* ------------------------ find_tree on its own ------------------------- *)

\* No iter_arrays call is under way.
ArraysIdle ==
    /\ kwargs = Kwargs(NoTreePath)
    /\ native = "bytes"
    /\ rootfiles = ListArg(<<>>)
    /\ nmax = NoneVal
    /\ treepath = NoTreePath
    /\ ntodo = NoneVal
    /\ files = <<>>
    /\ fidx = 0
    /\ it = <<>>
    /\ pc = "idle"
    /\ err = ""
    /\ grp = 0
    /\ parked = <<>>
    /\ active = 1

\* find_tree(tdir) is about to be called on an open directory.
InitLocate ==
    /\ mode = "find_tree"
    /\ tdir \in Directories(MaxEntries)
    /\ found = NotCalled
    /\ ArraysIdle
    /\ LogsEmpty
    /\ WeightedIdle
    /\ EventsIdle

\* The call of find_tree.
FT_Find ==
    /\ mode = "find_tree"
    /\ found.status = "idle"
    /\ found' = find_tree(tdir)
    /\ UNCHANGED <<mode, iaVars, err, logVars, wVars, eVars, kwargs, native,
                   parked, active, tdir>>

NextLocate == FT_Find

SpecLocate == InitLocate /\ [][NextLocate]_vars

\* The positions of the trees of a directory that are reached through
\* directories only.
RECURSIVE TablesAt(_, _)
TablesAt(d, at) ==
    UNION {IF d[i].kind = "tree" THEN {Append(at, i)}
           ELSE IF d[i].kind = "dir" THEN TablesAt(d[i].items, Append(at, i))
           ELSE {} : i \in 1..Len(d)}

\* Position p comes before position q in a depth-first walk.
RECURSIVE Precedes(_, _)
Precedes(p, q) ==
    /\ p # <<>>
    /\ q # <<>>
    /\ \/ p[1] < q[1]
       \/ p[1] = q[1] /\ Precedes(Tail(p), Tail(q))

\* The names from the top of the directory down to position p, joined.
RECURSIVE NamesTo(_, _)
NamesTo(d, p) ==
    IF Len(p) = 1 THEN d[p[1]].key.name
    ELSE d[p[1]].key.name \o "/" \o NamesTo(d[p[1]].items, Tail(p))

\* C14: find_tree raises exactly when no tree is reached through
\* directories at any depth; otherwise it returns a tree that comes before
\* every other such tree in the depth-first walk in entry order, with the
\* names of its ancestors and its own joined by "/" as its path.
C14_FirstTree ==
    found.status # "idle" =>
        IF TablesAt(tdir, <<>>) = {} THEN found.status = "raised"
        ELSE /\ found.status = "returned"
             /\ found.tree \in TablesAt(tdir, <<>>)
             /\ \A q \in TablesAt(tdir, <<>>) :
                   q = found.tree \/ Precedes(found.tree, q)
             /\ found.path = NamesTo(tdir, found.tree)

\* The tree returned sits in the second entry, a directory, after an entry
\* that holds no tree, and is not the only tree.
C14_Witness ==
    /\ found.status = "returned"
    /\ Len(found.tree) = 2
    /\ found.tree[1] = 2
    /\ Cardinality(TablesAt(tdir, <<>>)) >= 2

(* --------------------------- format_rootfiles -------------------------- *)

\* The rootfiles a call is given, patterns included.
References ==
    Arguments \cup
    {GlobArg(Regular(fl), remote) :
        fl \in FileLists(MaxRecords, MaxFiles), remote \in BOOLEAN}

\* iter_arrays over a list, a path or a pattern.
InitFormat ==
    /\ mode = "arrays"
    /\ kwargs = Kwargs(NoTreePath)
    /\ native = "bytes"
    /\ Single
    /\ rootfiles \in References
    /\ nmax \in Budgets
    /\ treepath = kwargs.treepath
    /\ ntodo = NoneVal
    /\ files = <<>>
    /\ fidx = 0
    /\ it = <<>>
    /\ pc = "start"
    /\ err = ""
    /\ grp = 1
    /\ LogsEmpty
    /\ WeightedIdle
    /\ EventsIdle

SpecFormat == InitFormat /\ [][NextArrays]_vars

\* C13: the list the loop walks is the list of the files the reference
\* stands for: the file of a single path, the files that match a local or a
\* remote pattern, the files of a list, in their order.
C13_Normalised == pc # "start" => files = rootfiles.files

(* ------------------------ the table path of a run ---------------------- *)

\* C12: a call given no treepath runs find_tree at most once, on its first
\* file and as soon as that file is read, and looks every file it opens up
\* under the path find_tree returned; a call given a treepath never runs
\* find_tree and looks every file up under the path it was given.
C12_LocatedOnce ==
    /\ \A i \in 1..Len(opened) : files[opened[i].f].tree = treepath.path
    /\ IF kwargs.treepath = NoTreePath
       THEN /\ Len(located) <= 1
            /\ \A i \in 1..Len(located) : located[i].f = 1
            /\ opened # <<>> =>
                  /\ Len(located) = 1
                  /\ treepath = encode(files[1].tree)
       ELSE /\ located = <<>>
            /\ treepath = kwargs.treepath

\* A call given no treepath has opened two files and located once.
C12_Witness ==
    /\ kwargs.treepath = NoTreePath
    /\ Len(opened) = 2
    /\ Len(located) = 1
    /\ pc = "done"

(* ------------------------ iter_arrays with decode ---------------------- *)

\* iter_arrays(rootfiles, nmax, decode=...) over a source of either key type.
InitDecode ==
    /\ mode = "arrays"
    /\ kwargs \in {[treepath |-> NoTreePath, decode |-> d] : d \in BOOLEAN}
    /\ native \in KeyTypes
    /\ Single
    /\ CallArrays
    /\ LogsEmpty
    /\ WeightedIdle
    /\ EventsIdle

SpecDecode == InitDecode /\ [][NextArrays]_vars

\* C11: with decode=True the call does not fail on the keyword, and in every
\* batch it yields every column is found under its name as text and not
\* found under its name as bytes, whatever the key type of the source.
C11_DecodedKeys ==
    kwargs.decode =>
        /\ err # "TypeError"
        /\ \A i \in 1..Len(out) : \A k \in Columns :
              HasKey(out[i], k, "str") /\ ~HasKey(out[i], k, "bytes")


(* ------------------- calls over files that may be odd ------------------ *)

\* The groups of a weighted call: one path each, at most one file odd.
OddGroupArguments ==
    UNION {{[g \in 1..Len(d) |-> PathArg(d[g])] : d \in Decorated(fl)} :
              fl \in FileLists(MaxRecords, MaxGroups)}

\* iter_arrays_weighted(N, crosssections, rootfiles) with as many weights as
\* groups, all equal.
InitSampler ==
    /\ mode = "weighted"
    /\ N \in 0..MaxRecords
    /\ groups \in OddGroupArguments
    /\ crosssections = [g \in 1..Len(groups) |-> 1]
    /\ ns = <<>>
    /\ gidx = 0
    /\ wpc = "start"
    /\ found = NotCalled
    /\ tdir = <<>>
    /\ ArraysIdle
    /\ LogsEmpty
    /\ EventsIdle

\* A call of iter_arrays or of iter_arrays_weighted.
SpecCalls == (InitArrays \/ InitSampler) /\ [][NextWeighted]_vars

(* ----------------------- a file that fails to open --------------------- *)

\* The exceptions of uproot.open, find_tree and f[treepath].
FileErrors == {"OSError", "NoTreeFound", "KeyError"}

\* The call has ended with an exception.
Failed == pc = "raised" \/ wpc = "raised"

\* When a file has failed: the exception is the one the file raised, what
\* was forwarded is what the source returned before, no batch comes from the
\* failing file, a later file or a later group, and no file was opened twice.
FailedState ==
    /\ pc = "raised" => err = OpenError(files[fidx])
    /\ (Failed /\ err \in FileErrors) =>
          /\ out = src
          /\ \A i \in 1..Len(out) :
                out[i].g < grp \/ (out[i].g = grp /\ out[i].f < fidx)
          /\ \A i \in 1..Len(opened) :
                opened[i].g < grp \/ (opened[i].g = grp /\ opened[i].f < fidx)
    /\ \A i, j \in 1..Len(opened) :
          (opened[i].g = opened[j].g /\ opened[i].f = opened[j].f) => i = j

\* A step never takes back a forwarded batch, and after a failure no step
\* forwards, opens, locates or asks again, or ends the call cleanly.
FailedStep ==
    /\ IsPrefix(out, out')
    /\ Failed =>
          /\ Failed'
          /\ wpc' # "done"
          /\ err' = err
          /\ <<out, src, opened, located, asked, runs>>' =
                <<out, src, opened, located, asked, runs>>

\* C15: a file that fails to open or to give its tree ends the call, of
\* iter_arrays or of the weighted sampler, with that exception: batches
\* forwarded before stay forwarded, nothing is retried, and no batch of the
\* failing file, of a later file or of a later group is ever forwarded.
C15_NoRecovery == []FailedState /\ [][FailedStep]_vars

\* The sampler has failed on its second group after forwarding a batch of
\* the first.
C15_Witness ==
    /\ wpc = "raised"
    /\ err = "OSError"
    /\ gidx = 2
    /\ out # <<>>

(* ------------------- two iter_arrays generators at once ---------------- *)

\* The frame of the generator whose state the iter_arrays variables hold:
\* its arguments, its locals, where it stands, and what it has done.
Frame ==
    [kwargs |-> kwargs, rootfiles |-> rootfiles, nmax |-> nmax,
     treepath |-> treepath, ntodo |-> ntodo, files |-> files, fidx |-> fidx,
     it |-> it, pc |-> pc, err |-> err, out |-> out, src |-> src,
     opened |-> opened, located |-> located, asked |-> asked]

\* The frame of a generator that has been created and not yet pulled.
NewFrame(kw, rf, budget) ==
    [kwargs |-> kw, rootfiles |-> rf, nmax |-> budget,
     treepath |-> kw.treepath, ntodo |-> NoneVal, files |-> <<>>, fidx |-> 0,
     it |-> <<>>, pc |-> "start", err |-> "", out |-> <<>>, src |-> <<>>,
     opened |-> <<>>, located |-> <<>>, asked |-> 0]

\* The budgets of two generators at once: unset, or 0 .. MaxShared + 1.
PairBudgets == {NoneVal} \cup {Some(k) : k \in 0..(MaxShared + 1)}

\* Budgets in one order, unset first.
Rank(budget) == IF budget.some THEN budget.v + 1 ELSE 0

\* Two generators are created over the same files, each with its own
\* budget; which of the two is created first makes no difference, the one
\* with the lower budget is.
InitPair ==
    /\ mode = "pair"
    /\ native = "bytes"
    /\ kwargs = Kwargs(NoTreePath)
    /\ \E fl \in FileLists(MaxShared, MaxFiles) :
          rootfiles = ListArg(Regular(fl))
    /\ nmax \in PairBudgets
    /\ treepath = kwargs.treepath
    /\ ntodo = NoneVal
    /\ files = <<>>
    /\ fidx = 0
    /\ it = <<>>
    /\ pc = "start"
    /\ err = ""
    /\ grp = 1
    /\ active = 1
    /\ \E budget \in PairBudgets :
          /\ Rank(nmax) <= Rank(budget)
          /\ parked = NewFrame(kwargs, rootfiles, budget)
    /\ tdir = <<>>
    /\ found = NotCalled
    /\ LogsEmpty
    /\ WeightedIdle
    /\ EventsIdle

\* The generator is suspended: not yet pulled, at a yield, or ended.
Suspended ==
    \/ pc \in {"start", "yielded", "done", "raised"}
    \/ /\ pc = "iter"
       /\ ~Truthy(nmax)
       /\ out # <<>>
       /\ out[Len(out)].f = fidx

\* Mutation: the remainder is one variable shared by the two generators.
Switched_shared(name) == IF name = "ntodo" THEN ntodo ELSE parked[name]

\* What a local of the generator that is pulled next holds: the value its
\* own frame kept.
Switched(name) == parked[name]

\* The consumer turns to the other generator: the running frame is kept as
\* it is and the other frame is resumed.
Switch ==
    /\ mode = "pair"
    /\ Suspended
    /\ parked' = Frame
    /\ active' = 3 - active
    /\ kwargs' = Switched("kwargs")
    /\ rootfiles' = Switched("rootfiles")
    /\ nmax' = Switched("nmax")
    /\ treepath' = Switched("treepath")
    /\ ntodo' = Switched("ntodo")
    /\ files' = Switched("files")
    /\ fidx' = Switched("fidx")
    /\ it' = Switched("it")
    /\ pc' = Switched("pc")
    /\ err' = Switched("err")
    /\ out' = Switched("out")
    /\ src' = Switched("src")
    /\ opened' = Switched("opened")
    /\ located' = Switched("located")
    /\ asked' = Switched("asked")
    /\ UNCHANGED <<mode, grp, runs, wVars, eVars, native, tdir, found>>

NextPair == Switch \/ IterArrays

SpecPair == InitPair /\ [][NextPair]_vars

(* ------------------ properties of generators run at once --------------- *)

\* The frame is one a generator run on its own can be in: its remainder is
\* its budget less what it has forwarded itself, it has opened its files in
\* order, each with the hint that follows from its own forwards, it has
\* forwarded the batches of each file as the source returns them for that
\* hint, whole for every file but the last one opened, and it has ended only
\* with its own budget spent or its own files exhausted.
Alone(F) ==
    LET capped    == Truthy(F.nmax)
        Of(f)     == SelectSeq(F.out, LAMBDA b : b.f = f)
        Before(f) == Count(SelectSeq(F.out, LAMBDA b : b.f < f))
    IN  /\ F.out = F.src
        /\ F.pc # "start" => F.files = F.rootfiles.files
        /\ (capped /\ F.pc # "start") =>
              F.ntodo = Some(F.nmax.v - Count(F.out))
        /\ capped => Count(AllButLast(F.out)) < F.nmax.v
        /\ \A i \in 1..Len(F.out) : F.out[i].f <= Len(F.opened)
        /\ \A i, j \in 1..Len(F.out) : i < j => F.out[i].f <= F.out[j].f
        /\ \A i \in 1..Len(F.opened) :
              LET o == F.opened[i] IN
              /\ o.f = i
              /\ o.hint = IF capped THEN Some(F.nmax.v - Before(i))
                          ELSE F.nmax
              /\ \E clips \in BOOLEAN :
                    LET all == Iterate(1, i, F.files[i].chunks, o.hint, clips)
                    IN  IF i < Len(F.opened) THEN Of(i) = all
                        ELSE IsPrefix(Of(i), all)
        /\ Len(F.located) <= 1
        /\ F.opened # <<>> => F.treepath = encode(F.files[1].tree)
        /\ F.pc = "done" =>
              \/ capped /\ F.ntodo.v <= 0
              \/ Len(F.opened) = Len(F.files)
        /\ F.err = ""

\* C16: of two iter_arrays generators over the same files, pulled in any
\* order, each is at every moment where a run on its own can be: budget,
\* remainder and tree path are its own, and what it forwards is what it
\* would forward alone.
C16_Independent == mode = "pair" => Alone(Frame) /\ Alone(parked)

\* Both generators, of different budgets, are between two of their batches.
C16_Witness ==
    /\ mode = "pair"
    /\ pc = "yielded"
    /\ parked.pc = "yielded"
    /\ ntodo.v > 0
    /\ parked.ntodo.v > 0
    /\ nmax # parked.nmax
    /\ fidx # parked.fidx

(* ---------------------------- a budget of 0 ---------------------------- *)

\* C17: a budget that is set, 0 included, caps the run: with budget 0 at
\* most one batch is forwarded, and a run that has forwarded one has ended
\* or ends at the next pull without opening another file.
C17_ZeroIsCapped ==
    (nmax.some /\ nmax.v = 0) =>
        /\ Len(out) <= 1
        /\ out # <<>> => pc \in {"yielded", "done"}

(* --------------------------- the stop hint ----------------------------- *)

\* The batches of s that come from file f, and from the files before f.
FromFile(s, f) == SelectSeq(s, LAMBDA b : b.f = f)

FromBefore(s, f) == SelectSeq(s, LAMBDA b : b.f < f)

\* The source has returned from no file more records than the hint.
Obedient ==
    \A i \in 1..Len(opened) :
        Count(FromFile(src, opened[i].f)) <= opened[i].hint.v

\* C18: in a run with budget k >= 1 the hint a file is opened with is k
\* less the records forwarded from the files before it, and is positive;
\* and while the source returns from no file more than the hint, the
\* remainder is not negative and a run that ends has forwarded min(k, M)
\* records, M the records the files hold.
C18_Hint ==
    Truthy(nmax) =>
        /\ \A i \in 1..Len(opened) :
              /\ opened[i].hint.some
              /\ opened[i].hint.v =
                    nmax.v - Count(FromBefore(out, opened[i].f))
              /\ opened[i].hint.v > 0
        /\ Obedient =>
              /\ pc # "start" => ntodo.v >= 0
              /\ pc = "done" =>
                    Count(out) = Min(nmax.v, TotalRecords(files))

\* A run has ended on its budget in its second file, opened with a hint
\* below the budget.
C18_Witness ==
    /\ Truthy(nmax)
    /\ Len(opened) = 2
    /\ opened[2].hint.v < nmax.v
    /\ Obedient
    /\ pc = "done"
    /\ Count(out) = nmax.v
    /\ Count(out) < TotalRecords(files)

(* ----------------------- the sampler never uncapped -------------------- *)

\* C19: every iter_arrays run the weighted sampler starts has a positive
\* budget, so it takes the capped branch: it stands in no state a run
\* without a budget stands in, every file is opened with a positive hint
\* within the sub-budget of its group, and the records forwarded for a
\* group, the last batch left out, stay below its sub-budget.
C19_NeverUncapped ==
    /\ \A i \in 1..Len(runs) : runs[i].nmax.some /\ runs[i].nmax.v > 0
    /\ pc # "idle" => Truthy(nmax) /\ nmax = Some(ns[grp])
    /\ \A i \in 1..Len(opened) :
          /\ opened[i].hint.some
          /\ opened[i].hint.v > 0
          /\ opened[i].hint.v <= ns[opened[i].g]
    /\ \A g \in 1..Len(ns) :
          OfGroup(out, g) # <<>> =>
              Count(AllButLast(OfGroup(out, g))) < ns[g]

\* The sampler has run two groups, one of them past its sub-budget.
C19_Witness ==
    /\ wpc = "done"
    /\ Len(runs) = 2
    /\ \E g \in 1..Len(ns) : Produced(g) > ns[g]

(* ---------------------- termination and shortfall ---------------------- *)

\* The call has ended, by returning or by raising.
Ended ==
    IF mode = "weighted" THEN wpc \in {"done", "raised"}
    ELSE pc \in {"done", "raised"}

\* Steps a list of files can still take: for each file the opening, two for
\* each chunk, and the request that finds the file exhausted.
RECURSIVE FilesWork(_)
FilesWork(fs) ==
    IF fs = <<>> THEN 0
    ELSE 2 * Len(Head(fs).chunks) + 2 + FilesWork(Tail(fs))

\* Steps the iter_arrays run can still take.
ArraysWork ==
    LET later == FilesWork(SubSeq(files, fidx + 1, Len(files))) + 1 IN
    CASE pc = "start"   -> FilesWork(format_rootfiles(rootfiles)) + 2
      [] pc = "loop"    -> FilesWork(SubSeq(files, fidx, Len(files))) + 1
      [] pc = "iter"    -> 2 * Len(it) + 1 + later
      [] pc = "yielded" -> 2 * Len(it) + 2 + later
      [] OTHER          -> 0

\* Steps the groups from group g on can still take.
RECURSIVE GroupsWork(_)
GroupsWork(g) ==
    IF g > Len(groups) THEN 0
    ELSE FilesWork(format_rootfiles(groups[g])) + 4 + GroupsWork(g + 1)

\* Steps the weighted sampler can still take.
SamplerWork ==
    CASE wpc = "start" -> GroupsWork(1) + 2
      [] wpc = "loop"  -> GroupsWork(gidx) + 1
      [] wpc = "sub"   -> ArraysWork + GroupsWork(gidx + 1) + 2
      [] OTHER         -> 0

Measure == IF mode = "weighted" THEN SamplerWork ELSE ArraysWork

\* A call that has not ended can take a step; a run with a budget above what
\* its files hold that has returned has forwarded exactly what they hold,
\* without an exception; every run of the sampler has the sub-budget of its
\* group as its budget, whatever earlier groups fell short by, and forwards
\* less than that sub-budget before its last batch.
ShortfallState ==
    /\ Ended \/ ENABLED NextWeighted
    /\ (mode = "arrays" /\ pc = "done" /\ Truthy(nmax)
          /\ TotalRecords(files) < nmax.v) =>
            Count(out) = TotalRecords(files) /\ err = ""
    /\ mode = "weighted" =>
          /\ \A i \in 1..Len(runs) : runs[i].nmax = Some(ns[runs[i].g])
          /\ \A g \in 1..Len(ns) :
                /\ OfGroup(out, g) # <<>> =>
                      Count(AllButLast(OfGroup(out, g))) < ns[g]
                /\ (wpc = "done" /\ GroupHeld(g) < ns[g]) =>
                      Produced(g) = GroupHeld(g)

\* C20: every call ends after finitely many steps: the steps it can still
\* take are bounded by a number that every step lowers, and it is never
\* stuck before its end.  A run whose files hold fewer records than its
\* budget returns after forwarding exactly those records, and a group of
\* the sampler that falls short of its sub-budget leaves the budgets of the
\* later groups as they were.
C20_Terminates == []ShortfallState /\ [][Measure' < Measure]_vars

\* The sampler has returned: its first group fell short of its sub-budget,
\* its second held more than its own and forwarded no more than that.
C20_Witness ==
    /\ mode = "weighted"
    /\ wpc = "done"
    /\ Len(ns) = 2
    /\ Produced(1) = GroupHeld(1)
    /\ GroupHeld(1) < ns[1]
    /\ GroupHeld(2) > ns[2]
    /\ Produced(2) = ns[2]
=============================================================================
